---- MODULE Spec2Model ----
(***************************************************************************)
(* Pet care and adoption platform (src/src/index.ts).                      *)
(*                                                                         *)
(* The file holds two revisions of the express server over the same six    *)
(* StableBTreeMap memories (ids 0..5): the authenticated revision          *)
(* (lines 1-419) and the plain CRUD revision (lines 421-929).  Every       *)
(* handler is one atomic action: a request runs to completion before the   *)
(* next one starts.                                                        *)
(*                                                                         *)
(* JavaScript values of a request body are modelled as tagged records so   *)
(* that truthiness (!x) and typeof are computed as the language computes   *)
(* them.  StableBTreeMap.get is taken to return the stored record, or      *)
(* None when the key is absent, as the handlers use it.                    *)
(***************************************************************************)
EXTENDS Integers, Sequences, FiniteSets, TLC

VARIABLES usersStorage, petsStorage, adoptionRequestsStorage,
          petCareEventsStorage, feedbacksStorage, donationsStorage,
          uuidCount, res

vars == <<usersStorage, petsStorage, adoptionRequestsStorage,
          petCareEventsStorage, feedbacksStorage, donationsStorage,
          uuidCount, res>>

stores == <<usersStorage, petsStorage, adoptionRequestsStorage,
            petCareEventsStorage, feedbacksStorage, donationsStorage>>

(* Number of records created in one run (calls of uuidv4). *)
MaxRecords == 3

----------------------------------------------------------------------------
(* JavaScript values *)

Undefined == [type |-> "undefined", str |-> "", num |-> 0]
Null == [type |-> "object", str |-> "", num |-> 0]
Str(s) == [type |-> "string", str |-> s, num |-> 0]
Num(n) == [type |-> "number", str |-> "", num |-> n]
Date(t) == [type |-> "date", str |-> "", num |-> t]

(* typeof v *)
TypeOf(v) == IF v.type = "date" THEN "object" ELSE v.type

(* ToBoolean(v): "", 0, undefined and null are falsy *)
Truthy(v) ==
    CASE v.type = "string" -> v.str # ""
      [] v.type = "number" -> v.num # 0
      [] v.type = "date" -> TRUE
      [] OTHER -> FALSE

(* a || b *)
OrElse(a, b) == IF Truthy(a) THEN a ELSE b

(* x && typeof x === "string" *)
IsStr(v) == Truthy(v) /\ TypeOf(v) = "string"

(* x && typeof x === "number" *)
IsNum(v) == Truthy(v) /\ TypeOf(v) = "number"

----------------------------------------------------------------------------
(* uuidv4(): the n-th identifier handed out; identifiers never repeat. *)
uuidv4 == "id" \o ToString(uuidCount + 1)

(* new Date(): logical time, advanced by every record creation. *)
Now == Date(uuidCount + 1)

(* An identifier that uuidv4 never hands out.  A key that is absent from a  *)
(* store is looked up the same way whatever it is, so requests address the *)
(* keys of the store and this one.                                         *)
Ghost == "ghost"
Keys(store) == DOMAIN store \cup {Ghost}

(* StableBTreeMap.insert(key, value): insert or overwrite. *)
Insert(store, key, value) ==
    [k \in DOMAIN store \cup {key} |-> IF k = key THEN value ELSE store[k]]

(* StableBTreeMap.remove(key) *)
Remove(store, key) == [k \in DOMAIN store \ {key} |-> store[k]]

(* StableBTreeMap.get(key) === None *)
IsNone(store, key) == key \notin DOMAIN store

EmptyStore == [k \in {} |-> Null]

(* res.status(code).json(body): the route answered, the status code and the *)
(* record the body carries (Null when it carries none).                     *)
Reply(route, code, json) ==
    res' = [route |-> route, status |-> code, json |-> json]

(* An answer that leaves every store as it was. *)
Refuse(route, code) ==
    /\ Reply(route, code, Null)
    /\ UNCHANGED <<stores, uuidCount>>

----------------------------------------------------------------------------
(* Entity constructors *)

User(name, contact, userType) ==
    [id |-> uuidv4, name |-> name, contact |-> contact,
     userType |-> userType, createdAt |-> Now]

Pet(ownerId, name, species, breed, age, description, status) ==
    [id |-> uuidv4, ownerId |-> ownerId, name |-> name, species |-> species,
     breed |-> breed, age |-> age, description |-> description,
     status |-> status, createdAt |-> Now]

AdoptionRequest(petId, adopterId, status) ==
    [id |-> uuidv4, petId |-> petId, adopterId |-> adopterId,
     status |-> status, requestedAt |-> Now, approvedAt |-> Null]

----------------------------------------------------------------------------
Init ==
    /\ usersStorage = EmptyStore
    /\ petsStorage = EmptyStore
    /\ adoptionRequestsStorage = EmptyStore
    /\ petCareEventsStorage = EmptyStore
    /\ feedbacksStorage = EmptyStore
    /\ donationsStorage = EmptyStore
    /\ uuidCount = 0
    /\ res = [route |-> "", status |-> 0, json |-> Null]

----------------------------------------------------------------------------
(* Request inputs *)

StrInputs(S) == {Undefined} \cup {Str(s) : s \in S}
IdInputs(store) == {Undefined} \cup {Str(i) : i \in Keys(store)}

(* authenticateToken: the Authorization header carries no token, a token   *)
(* jwt.verify refuses, or a token whose payload {id, userType} becomes     *)
(* req.user.                                                               *)
NoToken == [present |-> FALSE, valid |-> FALSE, id |-> "", userType |-> ""]
BadToken == [present |-> TRUE, valid |-> FALSE, id |-> "", userType |-> ""]
Token(i, t) == [present |-> TRUE, valid |-> TRUE, id |-> i, userType |-> t]
Tokens == {NoToken, BadToken, Token("caller", "Adopter")}

(* 0 when the middleware calls next(), else the status it answers with *)
authenticateToken(token) ==
    IF ~token.present THEN 401 ELSE IF ~token.valid THEN 403 ELSE 0

PetStatusInputs == StrInputs({"Available", "Adopted"})
RequestStatusInputs ==
    StrInputs({"Pending", "Approved", "Rejected", "Cancelled"})

(* POST /users, plain revision *)
PostUsers ==
    \E name \in StrInputs({"Ann"}), contact \in {Str("ann@x")},
       userType \in {Str("Owner")} :
      IF \/ ~Truthy(name) \/ ~Truthy(contact) \/ ~Truthy(userType)
         \/ TypeOf(name) # "string" \/ TypeOf(contact) # "string"
         \/ TypeOf(userType) # "string"
      THEN Refuse("POST /users", 400)
      ELSE LET user == User(name, contact, userType)
           IN /\ uuidCount < MaxRecords
              /\ usersStorage' = Insert(usersStorage, user.id, user)
              /\ uuidCount' = uuidCount + 1
              /\ Reply("POST /users", 201, user)
              /\ UNCHANGED <<petsStorage, adoptionRequestsStorage,
                             petCareEventsStorage, feedbacksStorage,
                             donationsStorage>>

(* The conditional field assignments of PUT /users/:id *)
UpdateUser(user, b) ==
    [user EXCEPT
       !.name = IF IsStr(b.name) THEN b.name ELSE @,
       !.contact = IF IsStr(b.contact) THEN b.contact ELSE @,
       !.userType = IF IsStr(b.userType) THEN b.userType ELSE @]

UserPatches ==
    [name : StrInputs({"Bea"}), contact : {Undefined},
     userType : {Undefined}]

(* PUT /users/:id, for the request bodies given *)
PutUsersOn(patches) ==
    \E id \in Keys(usersStorage), b \in patches :
      IF IsNone(usersStorage, id)
      THEN Refuse("PUT /users/:id", 404)
      ELSE LET user == UpdateUser(usersStorage[id], b)
           IN /\ usersStorage' = Insert(usersStorage, id, user)
              /\ Reply("PUT /users/:id", 200, user)
              /\ UNCHANGED <<petsStorage, adoptionRequestsStorage,
                             petCareEventsStorage, feedbacksStorage,
                             donationsStorage, uuidCount>>

PutUsers == PutUsersOn(UserPatches)

(* DELETE /users/:id without its None check *)
DeleteUsers_tolerant ==
    \E id \in Keys(usersStorage) :
      /\ usersStorage' = Remove(usersStorage, id)
      /\ Reply("DELETE /users/:id", 200, Null)
      /\ UNCHANGED <<petsStorage, adoptionRequestsStorage,
                     petCareEventsStorage, feedbacksStorage,
                     donationsStorage, uuidCount>>

(* DELETE /users/:id *)
DeleteUsers ==
    \E id \in Keys(usersStorage) :
      IF IsNone(usersStorage, id)
      THEN Refuse("DELETE /users/:id", 404)
      ELSE /\ usersStorage' = Remove(usersStorage, id)
           /\ Reply("DELETE /users/:id", 200, Null)
           /\ UNCHANGED <<petsStorage, adoptionRequestsStorage,
                          petCareEventsStorage, feedbacksStorage,
                          donationsStorage, uuidCount>>

----------------------------------------------------------------------------
(* Pets *)

PetBodies ==
    [ownerId : IdInputs(usersStorage), name : {Str("Rex")},
     species : {Str("dog")}, breed : {Str("lab")}, age : {Num(2)},
     description : {Str("calm")}, status : PetStatusInputs]

(* The field check of both POST /pets handlers *)
PetBodyInvalid(b) ==
    \/ ~Truthy(b.ownerId) \/ TypeOf(b.ownerId) # "string"
    \/ ~Truthy(b.name) \/ TypeOf(b.name) # "string"
    \/ ~Truthy(b.species) \/ TypeOf(b.species) # "string"
    \/ ~Truthy(b.breed) \/ TypeOf(b.breed) # "string"
    \/ ~Truthy(b.age) \/ TypeOf(b.age) # "number"
    \/ ~Truthy(b.description) \/ TypeOf(b.description) # "string"
    \/ ~Truthy(b.status) \/ TypeOf(b.status) # "string"

(* The try block of both POST /pets handlers *)
CreatePet(route, b) ==
    LET pet == Pet(b.ownerId, b.name, b.species, b.breed, b.age,
                   b.description, b.status)
    IN /\ uuidCount < MaxRecords
       /\ petsStorage' = Insert(petsStorage, pet.id, pet)
       /\ uuidCount' = uuidCount + 1
       /\ Reply(route, 201, pet)
       /\ UNCHANGED <<usersStorage, adoptionRequestsStorage,
                      petCareEventsStorage, feedbacksStorage,
                      donationsStorage>>

(* POST /pets, plain revision, for the request bodies given *)
PostPetsOn(bodies) ==
    \E b \in bodies :
      IF PetBodyInvalid(b)
      THEN Refuse("POST /pets", 400)
      ELSE IF IsNone(usersStorage, b.ownerId.str)
      THEN Refuse("POST /pets", 400)
      ELSE CreatePet("POST /pets", b)

PostPets == PostPetsOn(PetBodies)

(* POST /pets, authenticated revision, for the request bodies given *)
PostPetsAuthOn(bodies) ==
    \E token \in Tokens :
      IF authenticateToken(token) # 0
      THEN Refuse("POST /pets (auth)", authenticateToken(token))
      ELSE \E b \in bodies :
             IF PetBodyInvalid(b)
             THEN Refuse("POST /pets (auth)", 400)
             ELSE CreatePet("POST /pets (auth)", b)

PostPetsAuth == PostPetsAuthOn(PetBodies)

PetPatches ==
    [name : {Undefined}, species : {Undefined}, breed : {Undefined},
     age : {Undefined}, description : {Undefined},
     status : PetStatusInputs]

(* The conditional field assignments of PUT /pets/:id *)
UpdatePet(pet, b) ==
    [pet EXCEPT
       !.name = IF IsStr(b.name) THEN b.name ELSE @,
       !.species = IF IsStr(b.species) THEN b.species ELSE @,
       !.breed = IF IsStr(b.breed) THEN b.breed ELSE @,
       !.age = IF IsNum(b.age) THEN b.age ELSE @,
       !.description = IF IsStr(b.description) THEN b.description ELSE @,
       !.status = IF IsStr(b.status) THEN b.status ELSE @]

(* PUT /pets/:id, for the request bodies given *)
PutPetsOn(patches) ==
    \E id \in Keys(petsStorage), b \in patches :
      IF IsNone(petsStorage, id)
      THEN Refuse("PUT /pets/:id", 404)
      ELSE LET pet == UpdatePet(petsStorage[id], b)
           IN /\ petsStorage' = Insert(petsStorage, id, pet)
              /\ Reply("PUT /pets/:id", 200, pet)
              /\ UNCHANGED <<usersStorage, adoptionRequestsStorage,
                             petCareEventsStorage, feedbacksStorage,
                             donationsStorage, uuidCount>>

PutPets == PutPetsOn(PetPatches)

(* DELETE /pets/:id that also removes the adoption requests and the      *)
(* feedback referring to the pet                                          *)
DeletePets_cascade ==
    \E id \in Keys(petsStorage) :
      IF IsNone(petsStorage, id)
      THEN Refuse("DELETE /pets/:id", 404)
      ELSE /\ petsStorage' = Remove(petsStorage, id)
           /\ adoptionRequestsStorage' =
                [k \in {r \in DOMAIN adoptionRequestsStorage :
                          adoptionRequestsStorage[r].petId # Str(id)}
                   |-> adoptionRequestsStorage[k]]
           /\ feedbacksStorage' =
                [k \in {f \in DOMAIN feedbacksStorage :
                          feedbacksStorage[f].petId # Str(id)}
                   |-> feedbacksStorage[k]]
           /\ Reply("DELETE /pets/:id", 200, Null)
           /\ UNCHANGED <<usersStorage, petCareEventsStorage,
                          donationsStorage, uuidCount>>

(* DELETE /pets/:id *)
DeletePets ==
    \E id \in Keys(petsStorage) :
      IF IsNone(petsStorage, id)
      THEN Refuse("DELETE /pets/:id", 404)
      ELSE /\ petsStorage' = Remove(petsStorage, id)
           /\ Reply("DELETE /pets/:id", 200, Null)
           /\ UNCHANGED <<usersStorage, adoptionRequestsStorage,
                          petCareEventsStorage, feedbacksStorage,
                          donationsStorage, uuidCount>>

----------------------------------------------------------------------------
(* Adoption requests *)

(* The try block of both POST /adoption-requests handlers *)
CreateAdoptionRequest(route, petId, adopterId, status) ==
    LET adoptionRequest == AdoptionRequest(petId, adopterId, status)
    IN /\ uuidCount < MaxRecords
       /\ adoptionRequestsStorage' =
            Insert(adoptionRequestsStorage, adoptionRequest.id,
                   adoptionRequest)
       /\ uuidCount' = uuidCount + 1
       /\ Reply(route, 201, adoptionRequest)
       /\ UNCHANGED <<usersStorage, petsStorage, petCareEventsStorage,
                      feedbacksStorage, donationsStorage>>

(* POST /adoption-requests, plain revision, for the statuses given *)
PostAdoptionRequestsOn(statuses) ==
    \E petId \in IdInputs(petsStorage), adopterId \in {Str("caller")},
       status \in statuses :
      IF \/ ~Truthy(petId) \/ ~Truthy(adopterId) \/ ~Truthy(status)
         \/ TypeOf(petId) # "string" \/ TypeOf(adopterId) # "string"
         \/ TypeOf(status) # "string"
      THEN Refuse("POST /adoption-requests", 400)
      ELSE IF IsNone(petsStorage, petId.str)
      THEN Refuse("POST /adoption-requests", 400)
      ELSE CreateAdoptionRequest("POST /adoption-requests", petId,
                                 adopterId, status)

PostAdoptionRequests == PostAdoptionRequestsOn(RequestStatusInputs)

(* POST /adoption-requests, authenticated revision *)
PostAdoptionRequestsAuth ==
    \E token \in Tokens :
      IF authenticateToken(token) # 0
      THEN Refuse("POST /adoption-requests (auth)",
                  authenticateToken(token))
      ELSE \E petId \in IdInputs(petsStorage) :
             LET adopterId == Str(token.id)
             IN IF ~Truthy(petId) \/ TypeOf(petId) # "string"
                THEN Refuse("POST /adoption-requests (auth)", 400)
                ELSE CreateAdoptionRequest(
                       "POST /adoption-requests (auth)", petId, adopterId,
                       Str("Pending"))

(* The assignment with the approval timestamp written on every status      *)
(* change, whatever the new status.                                        *)
UpdateAdoptionRequest_stamped(adoptionRequest, status) ==
    [adoptionRequest EXCEPT
       !.status = IF IsStr(status) THEN status ELSE @,
       !.approvedAt = IF IsStr(status) THEN Now ELSE @]

(* The conditional field assignment of PUT /adoption-requests/:id *)
UpdateAdoptionRequest(adoptionRequest, status) ==
    [adoptionRequest EXCEPT
       !.status = IF IsStr(status) THEN status ELSE @]

(* PUT /adoption-requests/:id, for the statuses given *)
PutAdoptionRequestsOn(statuses) ==
    \E id \in Keys(adoptionRequestsStorage), status \in statuses :
      IF IsNone(adoptionRequestsStorage, id)
      THEN Refuse("PUT /adoption-requests/:id", 404)
      ELSE LET adoptionRequest ==
                 UpdateAdoptionRequest(adoptionRequestsStorage[id], status)
           IN /\ adoptionRequestsStorage' =
                   Insert(adoptionRequestsStorage, id, adoptionRequest)
              /\ Reply("PUT /adoption-requests/:id", 200, adoptionRequest)
              /\ UNCHANGED <<usersStorage, petsStorage, petCareEventsStorage,
                             feedbacksStorage, donationsStorage, uuidCount>>

PutAdoptionRequests == PutAdoptionRequestsOn(RequestStatusInputs)

(* DELETE /adoption-requests/:id *)
DeleteAdoptionRequests ==
    \E id \in Keys(adoptionRequestsStorage) :
      IF IsNone(adoptionRequestsStorage, id)
      THEN Refuse("DELETE /adoption-requests/:id", 404)
      ELSE /\ adoptionRequestsStorage' = Remove(adoptionRequestsStorage, id)
           /\ Reply("DELETE /adoption-requests/:id", 200, Null)
           /\ UNCHANGED <<usersStorage, petsStorage, petCareEventsStorage,
                          feedbacksStorage, donationsStorage, uuidCount>>

----------------------------------------------------------------------------
(* Pet care events *)

PetCareEvent(title, description, dateTime, location, organizerId) ==
    [id |-> uuidv4, title |-> title, description |-> description,
     dateTime |-> dateTime, location |-> location,
     organizerId |-> organizerId, createdAt |-> Now]

(* new Date(dateTime): the day a date string names, counted from 2000,     *)
(* and Invalid Date for any other value.                                   *)
InvalidDate == [type |-> "date", str |-> "Invalid Date", num |-> 0]
NewDate(v) ==
    IF v = Str("2030-01-01") THEN Date(10958)
    ELSE IF v = Str("2031-01-01") THEN Date(11323)
    ELSE InvalidDate

EventBodies ==
    [title : StrInputs({"Clinic"}), description : {Str("free")},
     dateTime : {Str("2030-01-01")}, location : {Str("park")},
     organizerId : {Str("caller")}]

(* POST /pet-care-events, plain revision *)
PostPetCareEvents ==
    \E b \in EventBodies :
      IF \/ ~Truthy(b.title) \/ ~Truthy(b.description) \/ ~Truthy(b.dateTime)
         \/ ~Truthy(b.location) \/ ~Truthy(b.organizerId)
         \/ TypeOf(b.title) # "string" \/ TypeOf(b.description) # "string"
         \/ TypeOf(b.location) # "string"
         \/ TypeOf(b.organizerId) # "string"
      THEN Refuse("POST /pet-care-events", 400)
      ELSE LET petCareEvent ==
                 PetCareEvent(b.title, b.description, NewDate(b.dateTime),
                              b.location, b.organizerId)
           IN /\ uuidCount < MaxRecords
              /\ petCareEventsStorage' =
                   Insert(petCareEventsStorage, petCareEvent.id, petCareEvent)
              /\ uuidCount' = uuidCount + 1
              /\ Reply("POST /pet-care-events", 201, petCareEvent)
              /\ UNCHANGED <<usersStorage, petsStorage,
                             adoptionRequestsStorage, feedbacksStorage,
                             donationsStorage>>

(* The conditional field assignments of PUT /pet-care-events/:id *)
UpdatePetCareEvent(petCareEvent, b) ==
    [petCareEvent EXCEPT
       !.title = IF IsStr(b.title) THEN b.title ELSE @,
       !.description = IF IsStr(b.description) THEN b.description ELSE @,
       !.dateTime = IF Truthy(b.dateTime) THEN NewDate(b.dateTime) ELSE @,
       !.location = IF IsStr(b.location) THEN b.location ELSE @]

EventPatches ==
    [title : {Undefined}, description : {Undefined},
     dateTime : StrInputs({"2031-01-01"}), location : {Undefined}]

(* PUT /pet-care-events/:id *)
PutPetCareEvents ==
    \E id \in Keys(petCareEventsStorage), b \in EventPatches :
      IF IsNone(petCareEventsStorage, id)
      THEN Refuse("PUT /pet-care-events/:id", 404)
      ELSE LET petCareEvent == UpdatePetCareEvent(petCareEventsStorage[id], b)
           IN /\ petCareEventsStorage' =
                   Insert(petCareEventsStorage, id, petCareEvent)
              /\ Reply("PUT /pet-care-events/:id", 200, petCareEvent)
              /\ UNCHANGED <<usersStorage, petsStorage,
                             adoptionRequestsStorage, feedbacksStorage,
                             donationsStorage, uuidCount>>

(* DELETE /pet-care-events/:id *)
DeletePetCareEvents ==
    \E id \in Keys(petCareEventsStorage) :
      IF IsNone(petCareEventsStorage, id)
      THEN Refuse("DELETE /pet-care-events/:id", 404)
      ELSE /\ petCareEventsStorage' = Remove(petCareEventsStorage, id)
           /\ Reply("DELETE /pet-care-events/:id", 200, Null)
           /\ UNCHANGED <<usersStorage, petsStorage, adoptionRequestsStorage,
                          feedbacksStorage, donationsStorage, uuidCount>>

----------------------------------------------------------------------------
(* Feedback *)

Feedback(userId, petId, eventId, feedback, rating) ==
    [id |-> uuidv4, userId |-> userId, petId |-> petId, eventId |-> eventId,
     feedback |-> feedback, rating |-> rating, createdAt |-> Now]

RatingInputs == {Num(0), Num(1), Num(5), Num(6)}

FeedbackBodies ==
    [userId : IdInputs(usersStorage), petId : IdInputs(petsStorage),
     eventId : IdInputs(petCareEventsStorage), feedback : {Str("kind")},
     rating : RatingInputs]

(* The try block of both POST /feedbacks handlers *)
CreateFeedback(route, userId, b) ==
    LET feedbackEntry == Feedback(userId, OrElse(b.petId, Null),
                                  OrElse(b.eventId, Null), b.feedback,
                                  b.rating)
    IN /\ uuidCount < MaxRecords
       /\ feedbacksStorage' =
            Insert(feedbacksStorage, feedbackEntry.id, feedbackEntry)
       /\ uuidCount' = uuidCount + 1
       /\ Reply(route, 201, feedbackEntry)
       /\ UNCHANGED <<usersStorage, petsStorage, adoptionRequestsStorage,
                      petCareEventsStorage, donationsStorage>>

(* The reference checks with the one of petId left out. *)
FeedbackReferenceMissing_noPet(b) ==
    \/ IsNone(usersStorage, b.userId.str)
    \/ (Truthy(b.eventId) /\ IsNone(petCareEventsStorage, b.eventId.str))

(* The reference checks of POST /feedbacks, plain revision: userId always, *)
(* petId and eventId when they are given.                                  *)
FeedbackReferenceMissing(b) ==
    \/ IsNone(usersStorage, b.userId.str)
    \/ (Truthy(b.petId) /\ IsNone(petsStorage, b.petId.str))
    \/ (Truthy(b.eventId) /\ IsNone(petCareEventsStorage, b.eventId.str))

(* POST /feedbacks, plain revision, for the request bodies given *)
PostFeedbacksOn(bodies) ==
    \E b \in bodies :
      IF \/ ~Truthy(b.userId) \/ ~Truthy(b.feedback) \/ ~Truthy(b.rating)
         \/ TypeOf(b.userId) # "string" \/ TypeOf(b.feedback) # "string"
         \/ TypeOf(b.rating) # "number"
         \/ (Truthy(b.petId) /\ TypeOf(b.petId) # "string")
         \/ (Truthy(b.eventId) /\ TypeOf(b.eventId) # "string")
      THEN Refuse("POST /feedbacks", 400)
      ELSE IF FeedbackReferenceMissing(b)
      THEN Refuse("POST /feedbacks", 400)
      ELSE CreateFeedback("POST /feedbacks", b.userId, b)

PostFeedbacks == PostFeedbacksOn(FeedbackBodies)

(* POST /feedbacks, authenticated revision, for the request bodies given *)
PostFeedbacksAuthOn(bodies) ==
    \E token \in Tokens :
      IF authenticateToken(token) # 0
      THEN Refuse("POST /feedbacks (auth)", authenticateToken(token))
      ELSE \E b \in bodies :
             LET userId == Str(token.id)
             IN IF \/ ~Truthy(b.feedback) \/ TypeOf(b.feedback) # "string"
                   \/ ~Truthy(b.rating) \/ TypeOf(b.rating) # "number"
                   \/ (Truthy(b.petId) /\ TypeOf(b.petId) # "string")
                   \/ (Truthy(b.eventId) /\ TypeOf(b.eventId) # "string")
                THEN Refuse("POST /feedbacks (auth)", 400)
                ELSE CreateFeedback("POST /feedbacks (auth)", userId, b)

PostFeedbacksAuth == PostFeedbacksAuthOn(FeedbackBodies)

(* The conditional field assignments of PUT /feedbacks/:id *)
UpdateFeedback_touched(feedbackEntry, feedback, rating) ==
    [feedbackEntry EXCEPT
       !.feedback = IF IsStr(feedback) THEN feedback ELSE @,
       !.rating = IF IsNum(rating) THEN rating ELSE @,
       !.createdAt = Now]

UpdateFeedback(feedbackEntry, feedback, rating) ==
    [feedbackEntry EXCEPT
       !.feedback = IF IsStr(feedback) THEN feedback ELSE @,
       !.rating = IF IsNum(rating) THEN rating ELSE @]

(* PUT /feedbacks/:id, for the texts and ratings given *)
PutFeedbacksOn(texts, ratings) ==
    \E id \in Keys(feedbacksStorage), feedback \in texts,
       rating \in ratings :
      IF IsNone(feedbacksStorage, id)
      THEN Refuse("PUT /feedbacks/:id", 404)
      ELSE LET feedbackEntry ==
                 UpdateFeedback(feedbacksStorage[id], feedback, rating)
           IN /\ feedbacksStorage' =
                   Insert(feedbacksStorage, id, feedbackEntry)
              /\ Reply("PUT /feedbacks/:id", 200, feedbackEntry)
              /\ UNCHANGED <<usersStorage, petsStorage,
                             adoptionRequestsStorage, petCareEventsStorage,
                             donationsStorage, uuidCount>>

PutFeedbacks == PutFeedbacksOn({Undefined}, RatingInputs)

(* DELETE /feedbacks/:id *)
DeleteFeedbacks ==
    \E id \in Keys(feedbacksStorage) :
      IF IsNone(feedbacksStorage, id)
      THEN Refuse("DELETE /feedbacks/:id", 404)
      ELSE /\ feedbacksStorage' = Remove(feedbacksStorage, id)
           /\ Reply("DELETE /feedbacks/:id", 200, Null)
           /\ UNCHANGED <<usersStorage, petsStorage, adoptionRequestsStorage,
                          petCareEventsStorage, donationsStorage, uuidCount>>

----------------------------------------------------------------------------
(* Donations *)

Donation(donorId, amount) ==
    [id |-> uuidv4, donorId |-> donorId, amount |-> amount,
     createdAt |-> Now]

AmountInputs == {Undefined, Num(0), Num(-5), Num(10)}

(* The try block of both POST /donations handlers *)
CreateDonation(route, donorId, amount) ==
    LET donation == Donation(donorId, amount)
    IN /\ uuidCount < MaxRecords
       /\ donationsStorage' = Insert(donationsStorage, donation.id, donation)
       /\ uuidCount' = uuidCount + 1
       /\ Reply(route, 201, donation)
       /\ UNCHANGED <<usersStorage, petsStorage, adoptionRequestsStorage,
                      petCareEventsStorage, feedbacksStorage>>

(* POST /donations, plain revision, for the amounts given *)
PostDonationsOn(amounts) ==
    \E donorId \in StrInputs({"caller"}), amount \in amounts :
      IF \/ ~Truthy(donorId) \/ ~Truthy(amount)
         \/ TypeOf(donorId) # "string" \/ TypeOf(amount) # "number"
      THEN Refuse("POST /donations", 400)
      ELSE CreateDonation("POST /donations", donorId, amount)

PostDonations == PostDonationsOn(AmountInputs)

(* POST /donations, authenticated revision *)
PostDonationsAuth ==
    \E token \in Tokens :
      IF authenticateToken(token) # 0
      THEN Refuse("POST /donations (auth)", authenticateToken(token))
      ELSE \E amount \in AmountInputs :
             LET donorId == Str(token.id)
             IN IF ~Truthy(amount) \/ TypeOf(amount) # "number"
                THEN Refuse("POST /donations (auth)", 400)
                ELSE CreateDonation("POST /donations (auth)", donorId,
                                    amount)

(* The conditional field assignment of PUT /donations/:id *)
UpdateDonation(donation, amount) ==
    [donation EXCEPT !.amount = IF IsNum(amount) THEN amount ELSE @]

(* PUT /donations/:id, for the amounts given *)
PutDonationsOn(amounts) ==
    \E id \in Keys(donationsStorage), amount \in amounts :
      IF IsNone(donationsStorage, id)
      THEN Refuse("PUT /donations/:id", 404)
      ELSE LET donation == UpdateDonation(donationsStorage[id], amount)
           IN /\ donationsStorage' = Insert(donationsStorage, id, donation)
              /\ Reply("PUT /donations/:id", 200, donation)
              /\ UNCHANGED <<usersStorage, petsStorage,
                             adoptionRequestsStorage, petCareEventsStorage,
                             feedbacksStorage, uuidCount>>

PutDonations == PutDonationsOn(AmountInputs)

(* DELETE /donations/:id *)
DeleteDonations ==
    \E id \in Keys(donationsStorage) :
      IF IsNone(donationsStorage, id)
      THEN Refuse("DELETE /donations/:id", 404)
      ELSE /\ donationsStorage' = Remove(donationsStorage, id)
           /\ Reply("DELETE /donations/:id", 200, Null)
           /\ UNCHANGED <<usersStorage, petsStorage, adoptionRequestsStorage,
                          petCareEventsStorage, feedbacksStorage, uuidCount>>

----------------------------------------------------------------------------
(* Listings, authenticated revision *)

(* Array.from(store.values()): the records in key order.  Identifiers are  *)
(* handed out in increasing key order here.                                *)
RECURSIVE ValuesFrom(_, _)
ValuesFrom(store, n) ==
    IF n > uuidCount THEN <<>>
    ELSE LET key == "id" \o ToString(n)
         IN (IF key \in DOMAIN store THEN <<store[key]>> ELSE <<>>)
              \o ValuesFrom(store, n + 1)

Values(store) == ValuesFrom(store, 1)

(* parseInt(q) of a query parameter: the integer a decimal string of one   *)
(* digit, signed or not, denotes, and NaN for anything else.               *)
NaN == [type |-> "number", str |-> "NaN", num |-> 0]
ParseInt(q) ==
    IF q.type = "string" /\ \E n \in -9..9 : ToString(n) = q.str
    THEN Num(CHOOSE n \in -9..9 : ToString(n) = q.str)
    ELSE NaN

Min(a, b) == IF a < b THEN a ELSE b
Max(a, b) == IF a > b THEN a ELSE b

(* Array.prototype.slice(start, end): a negative index counts from the end *)
Slice(arr, start, end) ==
    LET len == Len(arr)
        k == IF start < 0 THEN Max(len + start, 0) ELSE Min(start, len)
        final == IF end < 0 THEN Max(len + end, 0) ELSE Min(end, len)
    IN SubSeq(arr, k + 1, final)

(* const startIndex = (page - 1) * limit, counted from page 0 instead *)
StartIndex_fromZero(page, limit) == page * limit

(* const startIndex = (page - 1) * limit *)
StartIndex(page, limit) == (page - 1) * limit

(* const endIndex = page * limit *)
EndIndex(page, limit) == page * limit

(* The answer of a listing, with the request it answers (res.req). *)
ReplyTo(route, query, json) ==
    res' = [route |-> route, status |-> 200, json |-> json,
            req |-> [query |-> query]]

PageInputs == StrInputs({"2", "3", "-1"})
LimitInputs == StrInputs({"1", "2"})

(* GET /users, authenticated revision *)
GetUsersAuth ==
    \E token \in Tokens :
      IF authenticateToken(token) # 0
      THEN Refuse("GET /users (auth)", authenticateToken(token))
      ELSE \E p \in PageInputs, l \in LimitInputs :
             LET page == OrElse(ParseInt(p), Num(1)).num
                 limit == OrElse(ParseInt(l), Num(10)).num
                 users == Slice(Values(usersStorage),
                                StartIndex(page, limit),
                                EndIndex(page, limit))
             IN /\ ReplyTo("GET /users (auth)",
                           [page |-> p, limit |-> l],
                           [users |-> users, page |-> page, limit |-> limit,
                            total |-> Cardinality(DOMAIN usersStorage)])
                /\ UNCHANGED <<stores, uuidCount>>

(* The listing with the page cut out of the store before the filters are   *)
(* applied, and the size of the store as total.                            *)
ListPets_sliceFirst(species, status, page, limit) ==
    LET all == Slice(Values(petsStorage), StartIndex(page, limit),
                     EndIndex(page, limit))
        bySpecies == IF Truthy(species)
                     THEN SelectSeq(all, LAMBDA pet : pet.species = species)
                     ELSE all
        byStatus == IF Truthy(status)
                    THEN SelectSeq(bySpecies,
                                   LAMBDA pet : pet.status = status)
                    ELSE bySpecies
    IN [pets |-> byStatus, page |-> page, limit |-> limit,
        total |-> Cardinality(DOMAIN petsStorage)]

(* The try block of GET /pets: filter by species, then by status, then     *)
(* slice; total is the length before the slice.                            *)
ListPets(species, status, page, limit) ==
    LET all == Values(petsStorage)
        bySpecies == IF Truthy(species)
                     THEN SelectSeq(all, LAMBDA pet : pet.species = species)
                     ELSE all
        byStatus == IF Truthy(status)
                    THEN SelectSeq(bySpecies,
                                   LAMBDA pet : pet.status = status)
                    ELSE bySpecies
    IN [pets |-> Slice(byStatus, StartIndex(page, limit),
                       EndIndex(page, limit)),
        page |-> page, limit |-> limit, total |-> Len(byStatus)]

(* GET /pets, authenticated revision *)
GetPetsAuth ==
    \E token \in Tokens :
      IF authenticateToken(token) # 0
      THEN Refuse("GET /pets (auth)", authenticateToken(token))
      ELSE \E p \in PageInputs, l \in LimitInputs,
              species \in StrInputs({"cat"}),
              status \in StrInputs({"Available"}) :
             LET page == OrElse(ParseInt(p), Num(1)).num
                 limit == OrElse(ParseInt(l), Num(10)).num
             IN /\ ReplyTo("GET /pets (auth)",
                           [page |-> p, limit |-> l, species |-> species,
                            status |-> status],
                           ListPets(species, status, page, limit))
                /\ UNCHANGED <<stores, uuidCount>>

----------------------------------------------------------------------------
Next ==
    \/ PostUsers
    \/ DeleteUsers
    \/ PostPets
    \/ PostPetsAuth
    \/ PutPets
    \/ DeletePets
    \/ PostAdoptionRequests
    \/ PostAdoptionRequestsAuth
    \/ PutAdoptionRequests
    \/ DeleteAdoptionRequests
    \/ PostFeedbacks
    \/ PostFeedbacksAuth
    \/ PutFeedbacks
    \/ DeleteFeedbacks
    \/ PostPetCareEvents
    \/ PutPetCareEvents
    \/ DeletePetCareEvents
    \/ PostDonations
    \/ PostDonationsAuth
    \/ PutDonations
    \/ DeleteDonations
    \/ GetUsersAuth
    \/ GetPetsAuth
    \/ PutUsers

Spec == Init /\ [][Next]_vars

(* The adoption workflow: pets and the requests against them. *)
NextAdoption ==
    \/ PostPetsAuth
    \/ PutPets
    \/ DeletePets
    \/ PostAdoptionRequests
    \/ PostAdoptionRequestsAuth
    \/ PutAdoptionRequests
    \/ DeleteAdoptionRequests

SpecAdoption == Init /\ [][NextAdoption]_vars

(* Users and the pets they own. *)
NextPets ==
    \/ PostUsers
    \/ DeleteUsers
    \/ PostPets
    \/ PostPetsAuth
    \/ PutPets
    \/ DeletePets

SpecPets == Init /\ [][NextPets]_vars

(* Users and the feedback they leave. *)
NextFeedback ==
    \/ PostUsers
    \/ PostFeedbacks
    \/ PostFeedbacksAuth
    \/ PutFeedbacks
    \/ DeleteFeedbacks

SpecFeedback == Init /\ [][NextFeedback]_vars

(* The paginated listings, over pets of two species and two statuses. *)
ListedPetBodies ==
    {b \in [ownerId : {Str("caller")}, name : {Str("Rex")},
            species : {Str("dog"), Str("cat")}, breed : {Str("lab")},
            age : {Num(2)}, description : {Str("calm")},
            status : {Str("Available"), Str("Adopted")}] :
       b.species = Str("cat") \/ b.status = Str("Available")}

PostListedPets == PostPetsAuthOn(ListedPetBodies)

NextListing ==
    \/ PostUsers
    \/ PostListedPets
    \/ GetUsersAuth
    \/ GetPetsAuth

SpecListing == Init /\ [][NextListing]_vars

(* The donation ledger. *)
NextDonations ==
    \/ PostDonations
    \/ PostDonationsAuth
    \/ PutDonations
    \/ DeleteDonations

SpecDonations == Init /\ [][NextDonations]_vars

(* Feedback and the records it refers to, one rating and one pet status. *)
AvailablePetBodies ==
    [ownerId : IdInputs(usersStorage), name : {Str("Rex")},
     species : {Str("dog")}, breed : {Str("lab")}, age : {Num(2)},
     description : {Str("calm")}, status : {Str("Available")}]

ReferringFeedbackBodies ==
    [userId : IdInputs(usersStorage), petId : IdInputs(petsStorage),
     eventId : IdInputs(petCareEventsStorage), feedback : {Str("kind")},
     rating : {Num(5)}]

PostAvailablePets == PostPetsOn(AvailablePetBodies)
PostReferringFeedbacks == PostFeedbacksOn(ReferringFeedbackBodies)
PostReferringFeedbacksAuth == PostFeedbacksAuthOn(ReferringFeedbackBodies)

NextReferences ==
    \/ PostUsers
    \/ PostAvailablePets
    \/ PostPetCareEvents
    \/ PostReferringFeedbacks
    \/ PostReferringFeedbacksAuth
    \/ DeleteUsers
    \/ DeletePets

SpecReferences == Init /\ [][NextReferences]_vars

(* Create, update and delete over the stores whose records refer to one   *)
(* another (users, pets, adoption requests, feedback, donations), one      *)
(* value to a field.                                                       *)
RenamingUserPatches ==
    [name : {Str("Bea")}, contact : {Undefined}, userType : {Undefined}]

RenamingPetPatches ==
    [name : {Str("Max")}, species : {Undefined}, breed : {Undefined},
     age : {Undefined}, description : {Undefined}, status : {Undefined}]

PetFeedbackBodies ==
    [userId : IdInputs(usersStorage),
     petId : IdInputs(petsStorage) \ {Undefined}, eventId : {Undefined},
     feedback : {Str("kind")}, rating : {Num(5)}]

PutRenamedUsers == PutUsersOn(RenamingUserPatches)
PutRenamedPets == PutPetsOn(RenamingPetPatches)
PostPetFeedbacks == PostFeedbacksOn(PetFeedbackBodies)
PostPendingRequests == PostAdoptionRequestsOn({Str("Pending")})
PutApprovedRequests == PutAdoptionRequestsOn({Str("Approved")})
PutReworded == PutFeedbacksOn({Str("rude")}, {Undefined})
PostTenDonations == PostDonationsOn({Num(10)})
PutTwentyDonations == PutDonationsOn({Num(20)})

NextCrud ==
    \/ PostUsers
    \/ PutRenamedUsers
    \/ DeleteUsers
    \/ PostAvailablePets
    \/ PutRenamedPets
    \/ DeletePets
    \/ PostPendingRequests
    \/ PutApprovedRequests
    \/ DeleteAdoptionRequests
    \/ PostPetFeedbacks
    \/ PutReworded
    \/ DeleteFeedbacks
    \/ PostTenDonations
    \/ PutTwentyDonations
    \/ DeleteDonations

SpecCrud == Init /\ [][NextCrud]_vars

----------------------------------------------------------------------------
(* Properties *)

Pending == Str("Pending")
Approved == Str("Approved")
Rejected == Str("Rejected")
Available == Str("Available")
Adopted == Str("Adopted")

(* The step answered PUT /adoption-requests/:id with 200 for request id. *)
PutRequestStep(id) ==
    /\ res'.route = "PUT /adoption-requests/:id"
    /\ res'.status = 200
    /\ res'.json.id = id
    /\ id \in DOMAIN adoptionRequestsStorage

(* The step leaves request id with the given status, having found it with  *)
(* another one or not stored at all.                                       *)
BecomesStatus(id, status) ==
    /\ id \in DOMAIN adoptionRequestsStorage'
    /\ adoptionRequestsStorage'[id].status = status
    /\ \/ id \notin DOMAIN adoptionRequestsStorage
       \/ adoptionRequestsStorage[id].status # status

(* The pet that request id refers to is stored with status Adopted, if it  *)
(* is stored at all.                                                       *)
PetOfIsAdopted(store, pets, id) ==
    store[id].petId.str \in DOMAIN pets
      => pets[store[id].petId.str].status = Adopted

(* C1: a PUT that takes a Pending request to Approved sets approvedAt and   *)
(* marks the referenced pet Adopted; a PUT that finds the request Approved  *)
(* and leaves it Approved changes neither.                                  *)
C1_ApproveAdoptsPet ==
    [][\A id \in DOMAIN adoptionRequestsStorage :
         /\ (PutRequestStep(id)
             /\ adoptionRequestsStorage[id].status = Pending
             /\ adoptionRequestsStorage'[id].status = Approved)
            => /\ adoptionRequestsStorage'[id].approvedAt # Null
               /\ PetOfIsAdopted(adoptionRequestsStorage', petsStorage', id)
         /\ (PutRequestStep(id)
             /\ adoptionRequestsStorage[id].status = Approved
             /\ adoptionRequestsStorage'[id].status = Approved)
            => /\ adoptionRequestsStorage'[id].approvedAt
                    = adoptionRequestsStorage[id].approvedAt
               /\ petsStorage' = petsStorage]_vars

(* C2: every stored request has approvedAt set exactly when its status is   *)
(* Approved.                                                                *)
C2_ApprovedAtIffApproved ==
    \A id \in DOMAIN adoptionRequestsStorage :
      (adoptionRequestsStorage[id].approvedAt # Null)
        <=> (adoptionRequestsStorage[id].status = Approved)

(* C3: no two stored requests for the same pet are both Approved.           *)
C3_OneApprovedPerPet ==
    \A a, b \in DOMAIN adoptionRequestsStorage :
      (/\ a # b
       /\ adoptionRequestsStorage[a].petId = adoptionRequestsStorage[b].petId
       /\ adoptionRequestsStorage[a].status = Approved)
        => adoptionRequestsStorage[b].status # Approved

(* C4: a pet is Available when it is first stored, and a stored pet turns   *)
(* Adopted only in a step in which a request for it becomes Approved.       *)
C4_AdoptedOnlyByApproval ==
    [][\A id \in DOMAIN petsStorage' :
         /\ id \notin DOMAIN petsStorage
              => petsStorage'[id].status = Available
         /\ (/\ id \in DOMAIN petsStorage
             /\ petsStorage[id].status # Adopted
             /\ petsStorage'[id].status = Adopted)
              => \E r \in DOMAIN adoptionRequestsStorage' :
                   /\ adoptionRequestsStorage'[r].petId = Str(id)
                   /\ BecomesStatus(r, Approved)]_vars

(* C5: a request's status changes only from Pending, and only to Approved   *)
(* or Rejected; an Approved or Rejected request keeps its status.           *)
C5_TerminalStatuses ==
    [][\A id \in DOMAIN adoptionRequestsStorage
                   \cap DOMAIN adoptionRequestsStorage' :
         adoptionRequestsStorage'[id].status
             # adoptionRequestsStorage[id].status
           => /\ adoptionRequestsStorage[id].status = Pending
              /\ adoptionRequestsStorage'[id].status
                   \in {Approved, Rejected}]_vars

(* C6: every stored request's status is Pending, Approved or Rejected.      *)
C6_StatusInDomain ==
    \A id \in DOMAIN adoptionRequestsStorage :
      adoptionRequestsStorage[id].status \in {Pending, Approved, Rejected}

(* C7: a PUT that leaves a request Rejected changes no pet, and the         *)
(* request's approvedAt is null afterwards.                                 *)
C7_RejectLeavesPets ==
    [][\A id \in DOMAIN adoptionRequestsStorage :
         (PutRequestStep(id) /\ adoptionRequestsStorage'[id].status = Rejected)
           => /\ petsStorage' = petsStorage
              /\ adoptionRequestsStorage'[id].approvedAt = Null]_vars

(* C7 case: a Pending request for a stored, Available pet has just been     *)
(* rejected.                                                                *)
C7_Witness ==
    /\ res.route = "PUT /adoption-requests/:id"
    /\ res.status = 200
    /\ res.json.status = Rejected
    /\ adoptionRequestsStorage[res.json.id] = res.json
    /\ res.json.petId.str \in DOMAIN petsStorage
    /\ petsStorage[res.json.petId.str].status = Available

(* C8: a request is stored only for a pet that is stored, and it starts     *)
(* Pending with approvedAt null.                                            *)
C8_SubmitRequiresPet ==
    [][\A id \in DOMAIN adoptionRequestsStorage'
                   \ DOMAIN adoptionRequestsStorage :
         /\ adoptionRequestsStorage'[id].petId.str \in DOMAIN petsStorage
         /\ adoptionRequestsStorage'[id].status = Pending
         /\ adoptionRequestsStorage'[id].approvedAt = Null]_vars

(* C9: a pet is stored only for an owner that is a stored user.             *)
C9_PetRequiresOwner ==
    [][\A id \in DOMAIN petsStorage' \ DOMAIN petsStorage :
         petsStorage'[id].ownerId.str \in DOMAIN usersStorage]_vars

(* C10: every stored feedback has a rating from 1 to 5.                     *)
C10_RatingInRange ==
    \A id \in DOMAIN feedbacksStorage :
      /\ feedbacksStorage[id].rating.type = "number"
      /\ feedbacksStorage[id].rating.num \in 1..5

(* A reference field of a stored record is null or names a key of the store. *)
NullOrKey(ref, store) == ref = Null \/ ref.str \in DOMAIN store

C12_AmountPositive ==
    \A id \in DOMAIN donationsStorage :
      /\ donationsStorage[id].amount.type = "number"
      /\ donationsStorage[id].amount.num > 0

(* The page-th run of at most limit elements of list. *)
PageOf(list, page, limit) ==
    LET n == Min(limit, Max(0, Len(list) - (page - 1) * limit))
    IN [i \in 1..n |-> list[(page - 1) * limit + i]]

(* The stored pets, in listing order, that a query's filters let through. *)
Matching(query) ==
    SelectSeq(Values(petsStorage),
              LAMBDA pet :
                /\ Truthy(query.species) => pet.species = query.species
                /\ Truthy(query.status) => pet.status = query.status)

IsListing(route) ==
    /\ res.route = route
    /\ res.status = 200
    /\ res.json.page >= 1
    /\ res.json.limit >= 1

(* C13: a pet listing answers with the requested page of the pets that      *)
(* pass the filters, and total is the number of pets that pass them.        *)
C13_FilterThenPaginate ==
    IsListing("GET /pets (auth)")
      => /\ res.json.pets = PageOf(Matching(res.req.query), res.json.page,
                                   res.json.limit)
         /\ res.json.total = Len(Matching(res.req.query))

(* C13 case: page 2 of a filtered listing holds a pet, and the filter has   *)
(* left out some stored pet.                                                *)
C13_Witness ==
    /\ IsListing("GET /pets (auth)")
    /\ Truthy(res.req.query.status) \/ Truthy(res.req.query.species)
    /\ res.json.page = 2
    /\ Len(res.json.pets) >= 1
    /\ res.json.total < Cardinality(DOMAIN petsStorage)

RECURSIVE PagesFrom(_, _, _)
(* Pages page, page + 1, ... of list as the handlers cut them, one after    *)
(* the other, up to the first page that starts beyond the list.             *)
PagesFrom(list, page, limit) ==
    IF StartIndex(page, limit) >= Len(list) THEN <<>>
    ELSE Slice(list, StartIndex(page, limit), EndIndex(page, limit))
           \o PagesFrom(list, page + 1, limit)

MaxLimit == 3

(* C14: a listing of N records answers page >= 1 with the page-th run of    *)
(* min(limit, max(0, N - (page-1)*limit)) records, and the pages in order   *)
(* make up the whole listing.                                               *)
C14_Pagination ==
    /\ IsListing("GET /users (auth)")
         => res.json.users = PageOf(Values(usersStorage), res.json.page,
                                    res.json.limit)
    /\ IsListing("GET /pets (auth)")
         => Len(res.json.pets)
              = Min(res.json.limit,
                    Max(0, res.json.total
                             - (res.json.page - 1) * res.json.limit))
    /\ \A limit \in 1..MaxLimit :
         /\ PagesFrom(Values(usersStorage), 1, limit) = Values(usersStorage)
         /\ PagesFrom(Values(petsStorage), 1, limit) = Values(petsStorage)

(* C14 case: page 2 of three users, two to a page, holds the one left.      *)
C14_Witness ==
    /\ IsListing("GET /users (auth)")
    /\ res.json.page = 2
    /\ res.json.limit = 2
    /\ Cardinality(DOMAIN usersStorage) = 3
    /\ Len(res.json.users) = 1

-----------------------------------------------------------------------------
(* The update and delete endpoints *)

Resources ==
    <<"/users/:id", "/pets/:id", "/adoption-requests/:id",
      "/pet-care-events/:id", "/feedbacks/:id", "/donations/:id">>

PutRoutes == {"PUT " \o Resources[i] : i \in 1..6}
DeleteRoutes == {"DELETE " \o Resources[i] : i \in 1..6}

(* The position in stores of the store a route works on. *)
StoreIndex(route) ==
    CHOOSE i \in 1..6 : route \in {"PUT " \o Resources[i],
                                   "DELETE " \o Resources[i]}

(* Every record is stored under its own id. *)
KeyedById == \A i \in 1..6 : \A k \in DOMAIN stores[i] : stores[i][k].id = k

(* C15: a PUT or DELETE answers 200 or 404; a 404 answer leaves all six   *)
(* stores as they were; a PUT never changes the key set of any store, and *)
(* a PUT answered 200 carries a record whose id was already a key of the  *)
(* target store (records are stored under their own id), so an absent id  *)
(* is never updated or created; a DELETE answered 200 removed one key     *)
(* that was present, so an absent id is never answered 200.               *)
C15_AbsentIdNotFound ==
    [][/\ KeyedById
       /\ res'.route \in PutRoutes \cup DeleteRoutes
            => /\ res'.status \in {200, 404}
               /\ res'.status = 404 => stores' = stores
       /\ res'.route \in PutRoutes
            => /\ \A i \in 1..6 : DOMAIN stores'[i] = DOMAIN stores[i]
               /\ res'.status = 200
                    => res'.json.id \in DOMAIN stores[StoreIndex(res'.route)]
       /\ (res'.route \in DeleteRoutes /\ res'.status = 200)
            => LET i == StoreIndex(res'.route)
               IN /\ DOMAIN stores'[i] \subseteq DOMAIN stores[i]
                  /\ Cardinality(DOMAIN stores[i] \ DOMAIN stores'[i]) = 1]_vars

(* A PUT was answered 404 while the store addressed and the users store   *)
(* held records.                                                           *)
C15_Witness ==
    /\ res.route = "PUT /adoption-requests/:id"
    /\ res.status = 404
    /\ DOMAIN adoptionRequestsStorage # {}
    /\ DOMAIN usersStorage # {}

(* The fields each PUT handler takes from req.body, by position in stores. *)
Mutable ==
    <<{"name", "contact", "userType"},
      {"name", "species", "breed", "age", "description", "status"},
      {"status"},
      {"title", "description", "dateTime", "location"},
      {"feedback", "rating"},
      {"amount"}>>

(* C16: a PUT answered 200 stores the record it answers with under the id *)
(* addressed; that record has the fields it had and differs from the old  *)
(* one in none but the fields the handler takes from the body, so id,     *)
(* createdAt/requestedAt and the foreign keys (ownerId, petId, adopterId, *)
(* userId, eventId, donorId) are as before; the key set of the store,     *)
(* every other record of it and every other store are unchanged.          *)
C16_PutTouchesMutableOnly ==
    [][(res'.route \in PutRoutes /\ res'.status = 200)
         => LET i == StoreIndex(res'.route)
                id == res'.json.id
            IN /\ id \in DOMAIN stores[i]
               /\ DOMAIN stores'[i] = DOMAIN stores[i]
               /\ stores'[i][id] = res'.json
               /\ DOMAIN stores'[i][id] = DOMAIN stores[i][id]
               /\ \A f \in DOMAIN stores[i][id] \ Mutable[i] :
                     stores'[i][id][f] = stores[i][id][f]
               /\ \A k \in DOMAIN stores[i] \ {id} :
                     stores'[i][k] = stores[i][k]
               /\ \A j \in 1..6 \ {i} : stores'[j] = stores[j]]_vars

(* A feedback entry that refers to a user and a pet was reworded by a PUT. *)
C16_Witness ==
    /\ res.route = "PUT /feedbacks/:id"
    /\ res.status = 200
    /\ res.json.feedback = Str("rude")
    /\ res.json.userId.str \in DOMAIN usersStorage
    /\ res.json.petId.str \in DOMAIN petsStorage
    /\ feedbacksStorage[res.json.id] = res.json

(* The records of store that refer to id through the field named. *)
Referring(store, field, id) ==
    {k \in DOMAIN store : store[k][field] = Str(id)}

(* C17: a DELETE answered 200 removes one key of its store, leaves the    *)
(* other records of that store and every other store as they were; so     *)
(* the pets of a deleted user are still stored with ownerId unchanged,    *)
(* and the adoption requests and the feedback referring to a deleted pet  *)
(* are still stored with petId unchanged.                                 *)
C17_DeleteDoesNotCascade ==
    [][(res'.route \in DeleteRoutes /\ res'.status = 200)
         => LET i == StoreIndex(res'.route)
            IN /\ \E id \in DOMAIN stores[i] :
                     /\ stores'[i] = Remove(stores[i], id)
                     /\ i = 1 =>
                          \A p \in Referring(petsStorage, "ownerId", id) :
                            /\ p \in DOMAIN petsStorage'
                            /\ petsStorage'[p].ownerId = Str(id)
                     /\ i = 2 =>
                          /\ \A r \in Referring(adoptionRequestsStorage,
                                                 "petId", id) :
                                /\ r \in DOMAIN adoptionRequestsStorage'
                                /\ adoptionRequestsStorage'[r].petId = Str(id)
                          /\ \A f \in Referring(feedbacksStorage, "petId", id) :
                                /\ f \in DOMAIN feedbacksStorage'
                                /\ feedbacksStorage'[f].petId = Str(id)
               /\ \A j \in 1..6 \ {i} : stores'[j] = stores[j]]_vars

(* A user was deleted and a pet is stored whose owner is no longer a user. *)
C17_Witness ==
    /\ res.route = "DELETE /users/:id"
    /\ res.status = 200
    /\ \E p \in DOMAIN petsStorage :
         petsStorage[p].ownerId.str \notin DOMAIN usersStorage
====
